---- MODULE Spec2Model ----
(***************************************************************************)
(* HealthBot: the keyword-matching engine (chatbot_engine.py) and the      *)
(* Flask transport around it (app.py).                                     *)
(*                                                                         *)
(* Text is a sequence of one-character strings.  Responses are opaque     *)
(* strings.  Confidence is kept in hundredths (0.95 -> 95, 0.3 -> 30).     *)
(*                                                                         *)
(* Two programs are modelled over the same engine:                         *)
(*   SpecEngine  chatbot_engine.py run directly: construct the engine,     *)
(*               then call get_response on arbitrary strings;              *)
(*   Spec        app.py: construct the engine at import time, then serve   *)
(*               concurrent /api/chat requests.                            *)
(***************************************************************************)
EXTENDS Integers, Sequences, FiniteSets, TLC

VARIABLES
    source,     \* the intents file as found on disk (never written)
    chatbot,    \* "unset" | "engine" | "None" (app.py:34) | "raised" (uncaught)
    intents,    \* HealthChatbot.intents
    q,          \* last direct get_response call of chatbot_engine.py's main
    req         \* per in-flight /api/chat request: the handler's locals

vars == <<source, chatbot, intents, q, req>>

-----------------------------------------------------------------------------
(* Bounds *)

MaxLen == 4         \* longest message given to get_response directly
NumReqs == 2        \* concurrent /api/chat requests

(* Program constants, in hundredths *)
CONF_MATCH == 95
CONF_DEFAULT == 30
CONF_UNAVAILABLE == 0

DEFAULT_RESPONSE == "I'm not sure about that specific topic. ..."
UNAVAILABLE_RESPONSE == "Sorry, the chatbot engine is not available at the moment. Please try again later."

-----------------------------------------------------------------------------
(* Text *)

Whitespace == {" ", "\t"}
Chars == {"a", "b", "A"} \cup Whitespace

Strings(n) == UNION {[1..k -> Chars] : k \in 0..n}

IsSpace(c) == c \in Whitespace

\* str.lower, one character
lower_char(c) == IF c = "A" THEN "a" ELSE c

\* str.swapcase (what a wrong case conversion would do)
swapcase_char(c) == IF c = "A" THEN "a" ELSE IF c = "a" THEN "A" ELSE c

RECURSIVE map_lower(_)
map_lower(text) ==
    IF text = <<>> THEN <<>>
    ELSE <<lower_char(Head(text))>> \o map_lower(Tail(text))

RECURSIVE map_swapcase(_)
map_swapcase(text) ==
    IF text = <<>> THEN <<>>
    ELSE <<swapcase_char(Head(text))>> \o map_swapcase(Tail(text))

\* text.swapcase() in place of text.lower()
swapcase(text) == map_swapcase(text)

\* text.lower()
lower(text) == map_lower(text)

RECURSIVE lstrip(_)
lstrip(s) == IF s # <<>> /\ IsSpace(Head(s)) THEN lstrip(Tail(s)) ELSE s

RECURSIVE rstrip(_)
rstrip(s) ==
    IF s # <<>> /\ IsSpace(s[Len(s)]) THEN rstrip(SubSeq(s, 1, Len(s) - 1)) ELSE s

\* str.strip(): whitespace removed from both ends
strip(s) == rstrip(lstrip(s))

\* str.split() with no separator: the maximal runs of non-whitespace
RECURSIVE split_from(_, _, _)
split_from(s, cur, acc) ==
    IF s = <<>> THEN (IF cur = <<>> THEN acc ELSE Append(acc, cur))
    ELSE IF IsSpace(Head(s))
         THEN split_from(Tail(s), <<>>, IF cur = <<>> THEN acc ELSE Append(acc, cur))
         ELSE split_from(Tail(s), Append(cur, Head(s)), acc)

split(s) == split_from(s, <<>>, <<>>)

\* sep.join(toks)
RECURSIVE join(_, _)
join(sep, toks) ==
    IF toks = <<>> THEN <<>>
    ELSE IF Len(toks) = 1 THEN toks[1]
    ELSE toks[1] \o sep \o join(sep, Tail(toks))

\* Python's `sub in s` on strings: contiguous substring; "" is in every string
Contains(sub, s) ==
    \E i \in 0..(Len(s) - Len(sub)) : SubSeq(s, i + 1, i + Len(sub)) = sub

\* dict.get(key, default)
Get(d, key, default) == IF key \in DOMAIN d THEN d[key] ELSE default

-----------------------------------------------------------------------------
(* The intents file.  A keyword is a string; a topic entry is a JSON object *)
(* that may or may not carry "keywords" and "response".                     *)

K_a     == <<"a">>
K_b     == <<"b">>
K_ab    == <<"a", " ", "b">>
K_Aup   == <<" ", "A", "\t">>      \* normalizes to "a"
K_empty == <<>>                    \* ""
K_blank == <<" ", "\t">>           \* normalizes to ""

KB_none     == <<>>
KB_two      == <<[keywords |-> <<K_a, K_ab>>, response |-> "R1"],
                 [keywords |-> <<K_b>>, response |-> "R2"]>>
KB_overlap  == <<[keywords |-> <<K_ab>>, response |-> "R1"],
                 [keywords |-> <<K_b, K_Aup>>, response |-> "R2"],
                 [keywords |-> <<K_a>>, response |-> "R3"]>>
KB_partial  == <<[response |-> "R1"],
                 [keywords |-> <<>>, response |-> "R2"],
                 [keywords |-> <<K_b>>]>>
KB_emptykw  == <<[keywords |-> <<K_ab>>, response |-> "R1"],
                 [keywords |-> <<K_empty>>, response |-> "R2"],
                 [keywords |-> <<K_a>>, response |-> "R3"]>>
KB_blankkw  == <<[keywords |-> <<K_blank>>, response |-> "R3"]>>

KnowledgeBases == {KB_none, KB_two, KB_overlap, KB_partial, KB_emptykw, KB_blankkw}

\* What open()/json.load find at the intents path
Sources ==
    {[kind |-> "missing"],          \* no such file
     [kind |-> "unreadable"],       \* exists, open() refused (permissions, a directory)
     [kind |-> "invalid_json"],     \* text that is not JSON
     [kind |-> "json_array"],       \* valid JSON whose top level is a list
     [kind |-> "json_object", data |-> [other |-> <<>>]]}   \* no "intents" key
    \cup {[kind |-> "json_object", data |-> [intents |-> kb]] : kb \in KnowledgeBases}

-----------------------------------------------------------------------------
(* HealthChatbot *)

\* load_intents without the `except json.JSONDecodeError` clause
load_intents_no_json_handler(src) ==
    CASE src.kind = "missing"      -> [raised |-> FALSE, intents |-> <<>>]
      [] src.kind = "unreadable"   -> [raised |-> TRUE]
      [] src.kind = "invalid_json" -> [raised |-> TRUE]
      [] src.kind = "json_array"   -> [raised |-> TRUE]
      [] src.kind = "json_object"  ->
            [raised |-> FALSE, intents |-> Get(src.data, "intents", <<>>)]

\* load_intents: only FileNotFoundError and json.JSONDecodeError are caught;
\* any other exception leaves the method, and so the constructor
load_intents(src) ==
    CASE src.kind = "missing"      -> [raised |-> FALSE, intents |-> <<>>]
      [] src.kind = "unreadable"   -> [raised |-> TRUE]    \* PermissionError
      [] src.kind = "invalid_json" -> [raised |-> FALSE, intents |-> <<>>]
      [] src.kind = "json_array"   -> [raised |-> TRUE]    \* list has no .get
      [] src.kind = "json_object"  ->
            [raised |-> FALSE, intents |-> Get(src.data, "intents", <<>>)]

\* ' '.join(text.lower().strip().split())
clean_text(text) == join(<<" ">>, split(strip(lower(text))))

\* check_keywords comparing each keyword with the whole words of the message
check_keywords_whole_words(user_message, keywords) ==
    \E k \in 1..Len(keywords) :
        \E w \in 1..Len(split(clean_text(user_message))) :
            split(clean_text(user_message))[w] = clean_text(keywords[k])

\* check_keywords with the containment test written the wrong way round
check_keywords_reversed(user_message, keywords) ==
    \E k \in 1..Len(keywords) :
        Contains(clean_text(user_message), clean_text(keywords[k]))

RECURSIVE check_keywords_from(_, _, _)
check_keywords_from(user_message, keywords, k) ==
    IF k > Len(keywords) THEN FALSE
    ELSE IF Contains(clean_text(keywords[k]), user_message) THEN TRUE
    ELSE check_keywords_from(user_message, keywords, k + 1)

check_keywords(user_message, keywords) ==
    check_keywords_from(clean_text(user_message), keywords, 1)

\* one iteration of the loop of get_response over self.intents
scan_entry(intent, user_message) ==
    IF check_keywords(user_message, Get(intent, "keywords", <<>>))
    THEN [matched |-> TRUE, result |-> <<Get(intent, "response", ""), CONF_MATCH>>]
    ELSE [matched |-> FALSE]

\* get_response that keeps scanning and answers with the last matching entry
RECURSIVE scan_last_from(_, _, _, _)
scan_last_from(kb, user_message, i, best) ==
    IF i > Len(kb) THEN best
    ELSE scan_last_from(kb, user_message, i + 1,
            IF scan_entry(kb[i], user_message).matched
            THEN scan_entry(kb[i], user_message).result ELSE best)

get_response_last_match(kb, user_message) ==
    scan_last_from(kb, clean_text(user_message), 1, <<DEFAULT_RESPONSE, CONF_DEFAULT>>)

RECURSIVE scan_from(_, _, _)
scan_from(kb, user_message, i) ==
    IF i > Len(kb) THEN <<DEFAULT_RESPONSE, CONF_DEFAULT>>
    ELSE IF scan_entry(kb[i], user_message).matched
         THEN scan_entry(kb[i], user_message).result
         ELSE scan_from(kb, user_message, i + 1)

get_response(kb, user_message) == scan_from(kb, clean_text(user_message), 1)

-----------------------------------------------------------------------------
(* State *)

Reqs == 1..NumReqs

Idle == [pc |-> "idle"]
NoQuery == [asked |-> FALSE]

Init ==
    /\ source \in Sources
    /\ chatbot = "unset"
    /\ intents = <<>>
    /\ q = NoQuery
    /\ req = [r \in Reqs |-> Idle]

-----------------------------------------------------------------------------
(* chatbot_engine.py run as a program *)

\* bot = HealthChatbot(); an exception out of the constructor is not caught
MainConstruct ==
    /\ chatbot = "unset"
    /\ LET r == load_intents(source) IN
        IF r.raised
        THEN chatbot' = "raised" /\ intents' = <<>>
        ELSE chatbot' = "engine" /\ intents' = r.intents
    /\ UNCHANGED <<source, q, req>>

\* response, confidence = bot.get_response(query)
MainQuery(m) ==
    /\ chatbot = "engine"
    /\ ~q.asked
    /\ q' = [asked |-> TRUE,
             message |-> m,
             norm1 |-> clean_text(m),                  \* user_message after line 75
             norm2 |-> clean_text(clean_text(m)),      \* user_message after line 54
             result |-> get_response(intents, m)]
    /\ UNCHANGED <<source, chatbot, intents, req>>

\* the answer is printed and the loop moves on to the next query
MainPrint ==
    /\ q.asked
    /\ q' = NoQuery
    /\ UNCHANGED <<source, chatbot, intents, req>>

NextEngine ==
    \/ MainConstruct
    \/ \E m \in Strings(MaxLen) : MainQuery(m)
    \/ MainPrint

SpecEngine == Init /\ [][NextEngine]_vars

-----------------------------------------------------------------------------
(* app.py *)

\* What request.get_json() hands the handler: None, or the decoded object.
\* A "message" value is a JSON string or null.
Str(s) == [type |-> "str", val |-> s]
Null == [type |-> "null"]

ChatBodies ==
    {[json |-> FALSE],                                       \* no JSON body
     [json |-> TRUE, body |-> <<>>],                         \* {}
     [json |-> TRUE, body |-> [text |-> Str(<<"a">>)]],      \* no "message" field
     [json |-> TRUE, body |-> [message |-> Null]],
     [json |-> TRUE, body |-> [message |-> Str(<<>>)]],
     [json |-> TRUE, body |-> [message |-> Str(<<" ", "\t">>)]],
     [json |-> TRUE, body |-> [message |-> Str(<<" ", "b", "A", "\t">>)]],
     [json |-> TRUE, body |-> [message |-> Str(<<"a", " ", " ", "b">>)]]}

NoMessage(data) ==
    \/ ~data.json
    \/ DOMAIN data.body = {}
    \/ "message" \notin DOMAIN data.body

Reply400(data, error) ==
    [pc |-> "done", data |-> data, called |-> FALSE,
     resp |-> [code |-> 400, error |-> error]]

Reply500(data) ==
    [pc |-> "done", data |-> data, called |-> FALSE,
     resp |-> [code |-> 500, error |-> "Internal server error", status |-> "error"]]

Reply200(data, called, arg, result) ==
    [pc |-> "done", data |-> data, called |-> called, arg |-> arg,
     resp |-> [code |-> 200, response |-> result[1], confidence |-> result[2],
               status |-> "success"]]

\* module level, before the server runs:
\* try: chatbot = HealthChatbot()  except Exception: chatbot = None
AppStartup ==
    /\ chatbot = "unset"
    /\ LET r == load_intents(source) IN
        IF r.raised
        THEN chatbot' = "None" /\ intents' = <<>>
        ELSE chatbot' = "engine" /\ intents' = r.intents
    /\ UNCHANGED <<source, q, req>>

\* chat() that hands data['message'] to the engine as received
ChatBegin_unvalidated(r, data) ==
    /\ chatbot \in {"engine", "None"}
    /\ req[r].pc = "idle"
    /\ req' = [req EXCEPT ![r] =
          IF NoMessage(data) THEN Reply400(data, "No message provided")
          ELSE IF data.body.message.type # "str" THEN Reply500(data)
          ELSE IF chatbot = "engine"
               THEN [pc |-> "scan", data |-> data, called |-> TRUE,
                     arg |-> data.body.message.val,
                     user_message |-> clean_text(data.body.message.val), idx |-> 1]
               ELSE Reply200(data, FALSE, data.body.message.val,
                             <<UNAVAILABLE_RESPONSE, CONF_UNAVAILABLE>>)]
    /\ UNCHANGED <<source, chatbot, intents, q>>

\* chat(), from the request to the call of chatbot.get_response, whose first
\* statement (line 75 of the engine) normalizes the message
ChatBegin(r, data) ==
    /\ chatbot \in {"engine", "None"}
    /\ req[r].pc = "idle"
    /\ req' = [req EXCEPT ![r] =
          IF NoMessage(data) THEN Reply400(data, "No message provided")
          ELSE IF data.body.message.type # "str"
               THEN Reply500(data)      \* .strip() raises, caught at line 105
          ELSE LET user_message == strip(data.body.message.val) IN
               IF user_message = <<>> THEN Reply400(data, "Empty message")
               ELSE IF chatbot = "engine"
                    THEN [pc |-> "scan", data |-> data, called |-> TRUE,
                          arg |-> user_message,
                          user_message |-> clean_text(user_message), idx |-> 1]
                    ELSE Reply200(data, FALSE, user_message,
                                  <<UNAVAILABLE_RESPONSE, CONF_UNAVAILABLE>>)]
    /\ UNCHANGED <<source, chatbot, intents, q>>

\* One iteration of `for intent in self.intents` in a request's thread.
\* Variant: a matched entry is moved to the front of self.intents.
ScanStep_move_to_front(r) ==
    /\ req[r].pc = "scan"
    /\ LET i == req[r].idx IN
        IF i > Len(intents)
        THEN /\ req' = [req EXCEPT ![r] =
                    Reply200(req[r].data, TRUE, req[r].arg,
                             <<DEFAULT_RESPONSE, CONF_DEFAULT>>)]
             /\ intents' = intents
        ELSE IF scan_entry(intents[i], req[r].user_message).matched
             THEN /\ req' = [req EXCEPT ![r] =
                         Reply200(req[r].data, TRUE, req[r].arg,
                                  scan_entry(intents[i], req[r].user_message).result)]
                  /\ intents' = <<intents[i]>> \o SubSeq(intents, 1, i - 1)
                                    \o SubSeq(intents, i + 1, Len(intents))
             ELSE /\ req' = [req EXCEPT ![r].idx = i + 1]
                  /\ intents' = intents
    /\ UNCHANGED <<source, chatbot, q>>

\* One iteration of `for intent in self.intents` in a request's thread: the
\* list iterator reads self.intents at its index; the loop ends when the
\* index passes the end of the list.
ScanStep(r) ==
    /\ req[r].pc = "scan"
    /\ LET i == req[r].idx IN
        IF i > Len(intents)
        THEN req' = [req EXCEPT ![r] =
                Reply200(req[r].data, TRUE, req[r].arg,
                         <<DEFAULT_RESPONSE, CONF_DEFAULT>>)]
        ELSE IF scan_entry(intents[i], req[r].user_message).matched
             THEN req' = [req EXCEPT ![r] =
                     Reply200(req[r].data, TRUE, req[r].arg,
                              scan_entry(intents[i], req[r].user_message).result)]
             ELSE req' = [req EXCEPT ![r].idx = i + 1]
    /\ UNCHANGED <<source, chatbot, intents, q>>

\* the response is sent; nothing of the request is kept
ChatEnd(r) ==
    /\ req[r].pc = "done"
    /\ req' = [req EXCEPT ![r] = Idle]
    /\ UNCHANGED <<source, chatbot, intents, q>>

Next ==
    \/ AppStartup
    \/ \E r \in Reqs, data \in ChatBodies : ChatBegin(r, data)
    \/ \E r \in Reqs : ScanStep(r)
    \/ \E r \in Reqs : ChatEnd(r)

Spec == Init /\ [][Next]_vars

-----------------------------------------------------------------------------
(* Vocabulary of the properties *)

Keywords(intent) == Get(intent, "keywords", <<>>)
Response(intent) == Get(intent, "response", "")

\* entry i has a keyword whose normalized form is a substring of the
\* normalized message
EntryMatches(kb, i, message) ==
    \E k \in 1..Len(Keywords(kb[i])) :
        Contains(clean_text(Keywords(kb[i])[k]), clean_text(message))

MatchSet(kb, message) == {i \in 1..Len(kb) : EntryMatches(kb, i, message)}

First(S) == CHOOSE i \in S : \A j \in S : i <= j

\* the words of the normalized message
Words(message) == {split(clean_text(message))[w] : w \in 1..Len(split(clean_text(message)))}

-----------------------------------------------------------------------------
(* Properties of the engine, under SpecEngine *)

\* C1: first match wins.  When two or more entries have a keyword contained
\* in the message, get_response answers with the response of the entry of
\* smallest index.
C1_FirstMatchWins ==
    (q.asked /\ Cardinality(MatchSet(intents, q.message)) >= 2)
        => q.result[1] = Response(intents[First(MatchSet(intents, q.message))])

\* two entries with different responses match, the later through more keywords
C1_Witness ==
    /\ q.asked
    /\ \E i, j \in MatchSet(intents, q.message) :
          /\ i < j
          /\ Response(intents[i]) # Response(intents[j])
          /\ i = First(MatchSet(intents, q.message))
          /\ q.result[1] = Response(intents[i])

\* C2 as stated: whenever an entry has a keyword contained in the message,
\* get_response returns that entry's response with confidence 0.95.
C2_EveryMatchingEntryAnswers ==
    q.asked =>
        \A i \in MatchSet(intents, q.message) :
            q.result = <<Response(intents[i]), CONF_MATCH>>

\* C2 amended: whenever some entry has a keyword contained in the message
\* (as a substring, word boundaries play no part), get_response returns the
\* response of the first such entry, verbatim, with confidence 0.95; that is
\* the entry's own response whenever no earlier entry matches too.
C2_FirstMatchingEntryAnswers ==
    (q.asked /\ MatchSet(intents, q.message) # {})
        => q.result = <<Response(intents[First(MatchSet(intents, q.message))]), CONF_MATCH>>

\* a match inside a longer word: no keyword of the answering entry is a word
\* of the message
C2_Witness ==
    /\ q.asked
    /\ MatchSet(intents, q.message) # {}
    /\ LET i == First(MatchSet(intents, q.message)) IN
          /\ \A k \in 1..Len(Keywords(intents[i])) :
                clean_text(Keywords(intents[i])[k]) \notin Words(q.message)
          /\ q.result = <<Response(intents[i]), CONF_MATCH>>
          /\ Response(intents[i]) = "R1"

\* C3: a message that contains no keyword of any entry gets the default
\* response with confidence 0.3.
C3_NoMatchGivesDefault ==
    (q.asked /\ MatchSet(intents, q.message) = {})
        => q.result = <<DEFAULT_RESPONSE, CONF_DEFAULT>>

\* no match against a knowledge base that has entries, one without keywords
C3_Witness ==
    /\ q.asked
    /\ MatchSet(intents, q.message) = {}
    /\ Len(intents) >= 2
    /\ \E i \in 1..Len(intents) : "keywords" \notin DOMAIN intents[i]
    /\ q.norm1 # <<>>
    /\ q.result = <<DEFAULT_RESPONSE, CONF_DEFAULT>>

\* C4: constructing the engine never raises; every read or parse failure
\* leaves an engine with an empty knowledge base.
C4_ConstructorNeverRaises ==
    /\ chatbot # "raised"
    /\ (chatbot = "engine" /\ source.kind # "json_object") => intents = <<>>

C6_CleanTextIdempotent ==
    q.asked =>
        /\ q.norm2 = q.norm1
        /\ \A i \in 1..Len(intents) :
              check_keywords(q.norm1, Keywords(intents[i]))
                  = (\E k \in 1..Len(Keywords(intents[i])) :
                        Contains(clean_text(Keywords(intents[i])[k]), q.norm1))

\* a message that normalization changes in case, ends and inner whitespace
C6_Witness ==
    /\ q.asked
    /\ q.message = <<"A", " ", "\t", "b">>
    /\ q.norm1 = <<"a", " ", "b">>
    /\ q.norm2 = q.norm1
    /\ Len(intents) > 0

\* C10: an empty keyword never matches: an answer with confidence 0.95 rests
\* on a keyword that is non-empty after normalization, and the empty message
\* gets the default response with confidence 0.3.
C10_EmptyKeywordNeverMatches ==
    q.asked =>
        /\ q.result[2] = CONF_MATCH =>
              \E i \in 1..Len(intents) : \E k \in 1..Len(Keywords(intents[i])) :
                  /\ clean_text(Keywords(intents[i])[k]) # <<>>
                  /\ Contains(clean_text(Keywords(intents[i])[k]), q.norm1)
                  /\ q.result[1] = Response(intents[i])
        /\ q.message = <<>> => q.result = <<DEFAULT_RESPONSE, CONF_DEFAULT>>

-----------------------------------------------------------------------------
(* Properties of the service, under Spec *)

Done(r) == req[r].pc = "done"

\* C7: every success payload of /api/chat carries confidence 0.95 or 0.3.
C7_ConfidenceTwoValued ==
    \A r \in Reqs :
        (Done(r) /\ req[r].resp.code = 200)
            => req[r].resp.confidence \in {CONF_MATCH, CONF_DEFAULT}

\* C8: once the engine is constructed the knowledge base stays what the
\* loader produced, no request is being served before it is constructed, and
\* every get_response call, however interleaved with others, scans only past
\* entries that do not match and answers what it would answer run alone.
C8_ReadOnlyKnowledgeBase ==
    /\ chatbot = "unset" => \A r \in Reqs : req[r].pc = "idle"
    /\ chatbot = "engine" => intents = load_intents(source).intents
    /\ \A r \in Reqs :
          /\ req[r].pc = "scan" =>
                /\ chatbot = "engine"
                /\ \A j \in 1..(req[r].idx - 1) :
                      j <= Len(intents) /\ ~EntryMatches(intents, j, req[r].arg)
          /\ (Done(r) /\ req[r].called) =>
                /\ LET M == MatchSet(intents, req[r].arg) IN
                      <<req[r].resp.response, req[r].resp.confidence>> =
                          IF M = {} THEN <<DEFAULT_RESPONSE, CONF_DEFAULT>>
                          ELSE <<Response(intents[First(M)]), CONF_MATCH>>

\* two requests inside get_response at once, at different entries
C8_Witness ==
    /\ chatbot = "engine"
    /\ \E r1, r2 \in Reqs :
          /\ r1 # r2
          /\ req[r1].pc = "scan" /\ req[r1].idx = 3
          /\ Done(r2) /\ req[r2].called /\ req[r2].resp.confidence = CONF_MATCH
          /\ req[r2].arg # req[r1].arg

Stripped(s) == s = <<>> \/ (~IsSpace(s[1]) /\ ~IsSpace(s[Len(s)]))

MissingOrEmpty(data) ==
    \/ NoMessage(data)
    \/ /\ data.body.message.type = "str"
       /\ \A i \in 1..Len(data.body.message.val) : IsSpace(data.body.message.val[i])

====
